---- MODULE Spec2Model ----
(***************************************************************************)
(* Replicate Flux Pipeline (replicate_flux_pipeline250325.py).             *)
(*                                                                         *)
(* A chat message is tokenized into a prompt and trailing "--flag value"   *)
(* units (parse_command_params), the flags are normalised (convert_value,  *)
(* fuzzy_match, validate_dimensions, validate_image_url) and Pipeline.pipe *)
(* builds the payload of one call of the remote image service and maps its *)
(* outcome to a text.                                                      *)
(*                                                                         *)
(* Python strings are sequences of one-character strings, so that find,    *)
(* strip, split, lower, isdigit and int() are computed character by        *)
(* character.  Python values carry their type: see PyStr, PyInt, PyBool.   *)
(***************************************************************************)
EXTENDS Integers, Sequences, FiniteSets, TLC

\* The({e(x) : x \in {v}}) is e(v) with v evaluated once: a local variable.
The(S) == CHOOSE x \in S : TRUE

(***************************************************************************)
(* Characters and the str methods the program uses                         *)
(***************************************************************************)

\* The printable ASCII characters in code point order: chr(32)..chr(95), and
\* chr(97)..chr(126) (chr(96), the grave accent, is not used by any input).
AsciiTo95 ==
    <<" ", "!", "\"", "#", "$", "%", "&", "'", "(", ")", "*", "+", ",", "-", ".", "/",
      "0", "1", "2", "3", "4", "5", "6", "7", "8", "9", ":", ";", "<", "=", ">", "?",
      "@", "A", "B", "C", "D", "E", "F", "G", "H", "I", "J", "K", "L", "M", "N", "O",
      "P", "Q", "R", "S", "T", "U", "V", "W", "X", "Y", "Z", "[", "\\", "]", "^", "_">>

AsciiFrom97 ==
    <<"a", "b", "c", "d", "e", "f", "g", "h", "i", "j", "k", "l", "m", "n", "o",
      "p", "q", "r", "s", "t", "u", "v", "w", "x", "y", "z", "{", "|", "}", "~">>

AsciiChars == {AsciiTo95[i] : i \in 1..Len(AsciiTo95)} \cup
              {AsciiFrom97[i] : i \in 1..Len(AsciiFrom97)}

\* ord(c) of a printable ASCII character.
OrdMap == [c \in AsciiChars |->
             IF \E i \in 1..Len(AsciiTo95) : AsciiTo95[i] = c
             THEN 31 + CHOOSE i \in 1..Len(AsciiTo95) : AsciiTo95[i] = c
             ELSE 96 + CHOOSE i \in 1..Len(AsciiFrom97) : AsciiFrom97[i] = c]

\* ord(c); "\n" and "\t" sort below the printable characters.
Ord(c) == IF c \in AsciiChars THEN OrdMap[c] ELSE 10

\* c.lower(): the letters A..Z are chr(65)..chr(90), a..z are 32 further.
LowerMap == [c \in AsciiChars |->
                IF OrdMap[c] >= 65 /\ OrdMap[c] <= 90
                THEN AsciiFrom97[OrdMap[c] + 32 - 96] ELSE c]

LowerChar(c) == IF c \in AsciiChars THEN LowerMap[c] ELSE c

\* str.lower()
lower(s) == The({[i \in 1..Len(v) |-> LowerChar(v[i])] : v \in {s}})

\* The characters str.strip() and str.split(None) treat as whitespace.
Whitespace == {" ", "\t", "\n"}

Digits == {"0", "1", "2", "3", "4", "5", "6", "7", "8", "9"}

Letters == {AsciiFrom97[i] : i \in 1..26} \cup {AsciiTo95[i] : i \in 34..59}

DigitVal(c) == Ord(c) - 48

\* The least and the greatest member of a non-empty set of integers.
Least(S) == CHOOSE i \in S : \A j \in S : i <= j

Greatest(S) == CHOOSE i \in S : \A j \in S : i >= j

\* The index of the first character of s at or after position from that is in
\* set, Len(s) + 1 when there is none.
FirstIn(s, set, from) ==
    The({IF at = {} THEN Len(s) + 1 ELSE Least(at) :
           at \in {{i \in from..Len(s) : s[i] \in set}}})

\* The index of the first character of s from i on, and of the last one from i
\* back, that is not whitespace: Len(s) + 1 and 0 when there is none.
RECURSIVE FirstBlackFrom(_, _)
FirstBlackFrom(s, i) ==
    IF i <= Len(s) /\ s[i] \in Whitespace THEN FirstBlackFrom(s, i + 1) ELSE i

RECURSIVE LastBlackFrom(_, _)
LastBlackFrom(s, i) ==
    IF i >= 1 /\ s[i] \in Whitespace THEN LastBlackFrom(s, i - 1) ELSE i

FirstBlack(s) == FirstBlackFrom(s, 1)

LastBlack(s) == LastBlackFrom(s, Len(s))

\* str.lstrip(), str.strip()
lstrip(s) == The({SubSeq(v, FirstBlack(v), Len(v)) : v \in {s}})

strip(s) == The({SubSeq(v, FirstBlack(v), LastBlack(v)) : v \in {s}})

\* s.startswith(p), s.endswith(p)
startswith(s, p) == Len(p) <= Len(s) /\ SubSeq(s, 1, Len(p)) = p

endswith(s, p) == Len(p) <= Len(s) /\ SubSeq(s, Len(s) - Len(p) + 1, Len(s)) = p

\* s.find(sub, start): the 0-based index of the first occurrence of sub at or
\* after start, -1 when there is none.
find_from(s, sub, start) ==
    The({IF at = {} THEN -1 ELSE Least(at) :
           at \in {{i \in start..(Len(s) - Len(sub)) :
                       SubSeq(s, i + 1, i + Len(sub)) = sub}}})

\* s.find(sub)
find(s, sub) == find_from(s, sub, 0)

\* The pieces of s.split(sep) from the 0-based position start on.
RECURSIVE split_from(_, _, _)
split_from(s, sep, start) ==
    The({IF i = -1 THEN <<SubSeq(s, start + 1, Len(s))>>
         ELSE <<SubSeq(s, start + 1, i)>> \o split_from(s, sep, i + Len(sep)) :
           i \in {find_from(s, sep, start)}})

\* s.split(sep) for a non-empty separator: the list of the pieces, left to right.
split(s, sep) == The({split_from(v, sep, 0) : v \in {s}})

\* t.split(None, 1) of a string t that does not start with whitespace: the first
\* word and, when something follows the whitespace after it, the rest unchanged.
split_word(t) ==
    The({IF i > Len(t) THEN <<t>>
         ELSE The({IF rest = <<>> THEN <<SubSeq(t, 1, i - 1)>>
                   ELSE <<SubSeq(t, 1, i - 1), rest>> :
                     rest \in {lstrip(SubSeq(t, i, Len(t)))}}) :
           i \in {FirstIn(t, Whitespace, 1)}})

\* s.split(None, 1); [] for a string of whitespace.
split_none_1(s) ==
    The({IF t = <<>> THEN <<>> ELSE split_word(t) : t \in {lstrip(s)}})

\* s.isdigit()
isdigit(s) == The({v # <<>> /\ \A i \in 1..Len(v) : v[i] \in Digits : v \in {s}})

\* The value of the decimal digits s[1..n].
RECURSIVE DecimalPrefix(_, _)
DecimalPrefix(s, n) ==
    IF n = 0 THEN 0 ELSE 10 * DecimalPrefix(s, n - 1) + DigitVal(s[n])

\* The value of a string of decimal digits.
DecimalValue(s) == The({DecimalPrefix(v, Len(v)) : v \in {s}})

(***************************************************************************)
(* Python values and exceptions                                            *)
(***************************************************************************)

PyStr(s) == [t |-> "str", s |-> s, n |-> 0, b |-> FALSE]

PyInt(n) == [t |-> "int", s |-> <<>>, n |-> n, b |-> FALSE]

PyBool(b) == [t |-> "bool", s |-> <<>>, n |-> 0, b |-> b]

PyNone == [t |-> "NoneType", s |-> <<>>, n |-> 0, b |-> FALSE]

\* The outcome of evaluating an expression: a value, or an exception raised.
Ok(v) == [ok |-> TRUE, val |-> v, exc |-> "none"]

Raise(e) == [ok |-> FALSE, val |-> PyNone, exc |-> e]

\* bool(v), the truth value "if v" and "not v" test.
Truthy(v) ==
    CASE v.t = "str" -> v.s # <<>>
      [] v.t = "int" -> v.n # 0
      [] v.t = "bool" -> v.b
      [] OTHER -> FALSE

\* The number a bool or an int compares and computes as (bool is a subclass of int).
NumVal(v) == IF v.t = "bool" THEN (IF v.b THEN 1 ELSE 0) ELSE v.n

IsNumber(v) == v.t \in {"int", "bool"}

\* max(a, b) and min(a, b) of an int and a parsed value: the first argument unless
\* the second is strictly greater (less), so the result keeps the type of the
\* argument returned; ordering a str or None against an int raises TypeError.
PyMax(a, b) ==
    IF IsNumber(a) /\ IsNumber(b)
    THEN Ok(IF NumVal(b) > NumVal(a) THEN b ELSE a)
    ELSE Raise("TypeError")

PyMin(a, b) ==
    IF IsNumber(a) /\ IsNumber(b)
    THEN Ok(IF NumVal(b) < NumVal(a) THEN b ELSE a)
    ELSE Raise("TypeError")

\* Rounding with a float exactly halfway rounded up.
PyRoundHalfUp(num, den) ==
    IF 2 * (num % den) < den THEN num \div den ELSE (num \div den) + 1

\* round(num / den) for den > 0: Python 3 rounds a float to the nearest integer and
\* a float exactly halfway to the even one.  num / den is exact for the integers here.
PyRound(num, den) ==
    LET q == num \div den
        r == num % den
    IN  IF 2 * r < den THEN q
        ELSE IF 2 * r > den THEN q + 1
        ELSE IF q % 2 = 0 THEN q ELSE q + 1

\* int(w) of a stripped str: decimal digits with an optional sign and single
\* underscores between digits; ValueError otherwise.
int_of_text(w) ==
    LET signed == w # <<>> /\ Head(w) \in {"+", "-"}
        body   == IF signed THEN Tail(w) ELSE w
        wellFormed ==
            /\ body # <<>>
            /\ \A i \in 1..Len(body) : body[i] \in Digits \cup {"_"}
            /\ body[1] # "_" /\ body[Len(body)] # "_"
            /\ \A i \in 1..(Len(body) - 1) : ~(body[i] = "_" /\ body[i + 1] = "_")
        magnitude == DecimalValue(SelectSeq(body, LAMBDA c : c # "_"))
    IN  IF ~wellFormed THEN Raise("ValueError")
        ELSE Ok(PyInt(IF signed /\ Head(w) = "-" THEN 0 - magnitude ELSE magnitude))

\* int(v): an int or a bool as its number, a str parsed with whitespace around.
PyIntOf(v) ==
    IF IsNumber(v) THEN Ok(PyInt(NumVal(v)))
    ELSE IF v.t # "str" THEN Raise("TypeError")
    ELSE The({int_of_text(w) : w \in {strip(v.s)}})

\* A dict with string keys: d[k] = v
DictSet(d, k, v) == [x \in (DOMAIN d) \cup {k} |-> IF x = k THEN v ELSE d[x]]

\* d.get(k, default)
DictGet(d, k, default) == IF k \in DOMAIN d THEN d[k] ELSE default

(***************************************************************************)
(* Constants                                                               *)
(***************************************************************************)

S_custom == <<"c", "u", "s", "t", "o", "m">>
S_1_1 == <<"1", ":", "1">>
S_16_9 == <<"1", "6", ":", "9">>
S_3_2 == <<"3", ":", "2">>
S_2_3 == <<"2", ":", "3">>
S_4_5 == <<"4", ":", "5">>
S_5_4 == <<"5", ":", "4">>
S_9_16 == <<"9", ":", "1", "6">>
S_3_4 == <<"3", ":", "4">>
S_4_3 == <<"4", ":", "3">>
S_webp == <<"w", "e", "b", "p">>
S_jpg == <<"j", "p", "g">>
S_png == <<"p", "n", "g">>
S_jpeg == <<"j", "p", "e", "g">>
S_gif == <<"g", "i", "f">>
S_none == <<"n", "o", "n", "e">>
S_true == <<"t", "r", "u", "e">>
S_false == <<"f", "a", "l", "s", "e">>
S_dashes == <<"-", "-">>

\* The parameter names.
N_prompt == <<"p", "r", "o", "m", "p", "t">>
N_aspect_ratio == <<"a", "s", "p", "e", "c", "t", "_", "r", "a", "t", "i", "o">>
N_width == <<"w", "i", "d", "t", "h">>
N_height == <<"h", "e", "i", "g", "h", "t">>
N_seed == <<"s", "e", "e", "d">>
N_image_prompt == <<"i", "m", "a", "g", "e", "_", "p", "r", "o", "m", "p", "t">>
N_output_format == <<"o", "u", "t", "p", "u", "t", "_", "f", "o", "r", "m", "a", "t">>
N_output_quality == <<"o", "u", "t", "p", "u", "t", "_", "q", "u", "a", "l", "i", "t", "y">>
N_safety_tolerance == <<"s", "a", "f", "e", "t", "y", "_", "t", "o", "l", "e", "r", "a", "n", "c", "e">>
N_prompt_upsampling == <<"p", "r", "o", "m", "p", "t", "_", "u", "p", "s", "a", "m", "p", "l", "i", "n", "g">>

AVAILABLE_ASPECT_RATIOS ==
    <<S_custom, S_1_1, S_16_9, S_3_2, S_2_3, S_4_5, S_5_4, S_9_16, S_3_4, S_4_3>>

AVAILABLE_OUTPUT_FORMATS == <<S_webp, S_jpg, S_png>>

ALLOWED_IMAGE_FORMATS == <<S_jpeg, S_jpg, S_png, S_gif, S_webp>>

\* The members of a list.
Elems(list) == {list[i] : i \in 1..Len(list)}

(***************************************************************************)
(* convert_value and parse_command_params                                  *)
(***************************************************************************)

\* convert_value(value): value.lower() exists only on a str.
convert_value(value) ==
    IF value.t # "str" THEN Raise("AttributeError")
    ELSE IF lower(value.s) = S_true THEN Ok(PyBool(TRUE))
    ELSE IF lower(value.s) = S_false THEN Ok(PyBool(FALSE))
    ELSE IF isdigit(value.s) THEN Ok(PyInt(DecimalValue(value.s)))
    ELSE Ok(value)

\* The state of the for loop of parse_command_params: params, or the exception
\* that left the loop.
Parsed(params) == [ok |-> TRUE, params |-> params, exc |-> "none"]

ParseFailed(exc) == [ok |-> FALSE, params |-> <<>>, exc |-> exc]

\* Lines 166-175 for the pieces of a token: the name, the value or True, the
\* conversion and the assignment.
parse_pieces(pieces, params) ==
    The({IF converted.ok THEN Parsed(DictSet(params, pieces[1], converted.val))
         ELSE ParseFailed(converted.exc) :
           converted \in {convert_value(IF Len(pieces) > 1 THEN PyStr(pieces[2])
                                        ELSE PyBool(TRUE))}})

\* One pass of the for loop, lines 162-175: an empty token is skipped.
parse_token(tok, params) ==
    IF tok = <<>> THEN Parsed(params)
    ELSE The({parse_pieces(pieces, params) : pieces \in {split_none_1(tok)}})

\* The for loop from tokens[i] on.
RECURSIVE parse_tokens(_, _, _)
parse_tokens(tokens, i, params) ==
    IF i > Len(tokens) THEN Parsed(params)
    ELSE The({IF r.ok THEN parse_tokens(tokens, i + 1, r.params) ELSE r :
                r \in {The({parse_token(tok, params) : tok \in {strip(tokens[i])}})}})

\* Lines 153-177, for the index of the first "--".
parse_params_at(user_message, param_index) ==
    The({parse_tokens(tokens, 1, [k \in {N_prompt} |-> PyStr(prompt_part)]) :
           prompt_part \in {strip(SubSeq(user_message, 1, param_index))},
           tokens \in {Tail(split(strip(SubSeq(user_message, param_index + 1,
                                               Len(user_message))), S_dashes))}})

\* The try block of parse_command_params.
parse_command_params_try(user_message) ==
    The({IF param_index = -1
         THEN Parsed([k \in {N_prompt} |-> PyStr(strip(user_message))])
         ELSE parse_params_at(user_message, param_index) :
           param_index \in {find(user_message, S_dashes)}})

\* parse_command_params(user_message): an exception of the try block is logged
\* and the whole trimmed message becomes the prompt.
parse_command_params(user_message) ==
    The({IF r.ok THEN r.params ELSE [k \in {N_prompt} |-> PyStr(strip(user_message))] :
           r \in {parse_command_params_try(user_message)}})

(***************************************************************************)
(* fuzzy_match and difflib.get_close_matches                               *)
(***************************************************************************)

\* The length of the common run of a from i and b from j.
RECURSIVE RunLength(_, _, _, _)
RunLength(a, b, i, j) ==
    IF i <= Len(a) /\ j <= Len(b) /\ a[i] = b[j] THEN 1 + RunLength(a, b, i + 1, j + 1)
    ELSE 0

\* Of the blocks <<i, j, k>>, the longest; of the longest ones the one starting
\* earliest in a, and of those the one starting earliest in b.
longest_block(blocks) ==
    CHOOSE x \in blocks : \A y \in blocks :
        \/ x[3] > y[3]
        \/ x[3] = y[3] /\ x[1] < y[1]
        \/ x[3] = y[3] /\ x[1] = y[1] /\ x[2] <= y[2]

\* SequenceMatcher.find_longest_match without junk: <<i, j, k>>, the block
\* a[i..i+k-1] = b[j..j+k-1] chosen as above.  k = 0 when nothing matches.
find_longest_match(a, b) ==
    The({IF blocks = {} THEN <<0, 0, 0>> ELSE longest_block(blocks) :
           blocks \in {{<<x[1], x[2], RunLength(a, b, x[1], x[2])>> :
                          x \in {y \in (1..Len(a)) \X (1..Len(b)) : a[y[1]] = b[y[2]]}}}})

\* The number of matched characters: the sum of SequenceMatcher.get_matching_blocks,
\* the longest block, then the same to its left and to its right.
RECURSIVE matching_characters(_, _)
matching_characters(a, b) ==
    IF a = <<>> \/ b = <<>> THEN 0
    ELSE The({IF m[3] = 0 THEN 0
              ELSE m[3] + The({matching_characters(al, bl) :
                                 al \in {SubSeq(a, 1, m[1] - 1)},
                                 bl \in {SubSeq(b, 1, m[2] - 1)}})
                        + The({matching_characters(ar, br) :
                                 ar \in {SubSeq(a, m[1] + m[3], Len(a))},
                                 br \in {SubSeq(b, m[2] + m[3], Len(b))}}) :
                m \in {find_longest_match(a, b)}})

\* SequenceMatcher.ratio() = 2.0 * M / T as the fraction <<numerator, denominator>>;
\* 1.0 for two empty strings.
ratio(a, b) ==
    IF Len(a) + Len(b) = 0 THEN <<1, 1>>
    ELSE <<2 * matching_characters(a, b), Len(a) + Len(b)>>

\* cutoff=0.6 of fuzzy_match's call, as the fraction 3/5.
CutoffNum == 3

CutoffDen == 5

\* x < y for two strings, by code points.
RECURSIVE StrLessFrom(_, _, _)
StrLessFrom(x, y, i) ==
    IF i > Len(y) THEN FALSE
    ELSE IF i > Len(x) THEN TRUE
    ELSE IF x[i] # y[i] THEN Ord(x[i]) < Ord(y[i])
    ELSE StrLessFrom(x, y, i + 1)

StrLess(x, y) == StrLessFrom(x, y, 1)

\* (score, x) < (score, y) for two <<ratio, string>> pairs.
ScoredLess(p, q) ==
    \/ p[1][1] * q[1][2] < q[1][1] * p[1][2]
    \/ p[1][1] * q[1][2] = q[1][1] * p[1][2] /\ StrLess(p[2], q[2])

\* heapq.nlargest(1, result): the greatest (score, x) pair; [] or [x].
nlargest_1(result) ==
    IF result = {} THEN <<>>
    ELSE <<(CHOOSE p \in result : \A q \in result : q = p \/ ScoredLess(q, p))[2]>>

\* get_close_matches(word, possibilities, n=1, cutoff): the possibilities scoring
\* at least cutoff, and of them the one of the best score and, among equal
\* scores, the greatest string.
\* (real_quick_ratio and quick_ratio are upper bounds of ratio: they drop nothing
\* that ratio keeps.)
get_close_matches(word, possibilities) ==
    The({nlargest_1(result) :
           result \in {The({{p \in scored : p[1][1] * CutoffDen >= CutoffNum * p[1][2]} :
                              scored \in {The({{<<ratio(x, w), x>> : x \in Elems(possibilities)} :
                                                 w \in {word}})}})}})

\* candidate_map[key]: a later candidate replaces an earlier one of the same key.
candidate_map(candidates, key) ==
    candidates[Greatest({i \in 1..Len(candidates) : lower(candidates[i]) = key})]

\* Lines 94-108 of fuzzy_match, for a str that is neither empty nor "none".
fuzzy_match_text(text, candidates, default) ==
    IF text \in Elems(candidates) THEN Ok(PyStr(text))
    ELSE The({IF matches # <<>> THEN Ok(PyStr(candidate_map(candidates, matches[1])))
              ELSE Ok(PyStr(default)) :
                matches \in {get_close_matches(strip(lower(text)),
                                               [i \in 1..Len(candidates) |->
                                                    lower(candidates[i])])}})

\* fuzzy_match(input_text, candidates, default): "not input_text" is True of "",
\* 0, False and None; input_text.lower() exists only on a str.
fuzzy_match(input_text, candidates, default) ==
    IF ~Truthy(input_text) THEN Ok(PyStr(default))
    ELSE IF input_text.t # "str" THEN Raise("AttributeError")
    ELSE IF lower(input_text.s) = S_none THEN Ok(PyStr(default))
    ELSE The({fuzzy_match_text(text, candidates, default) : text \in {input_text.s}})

(***************************************************************************)
(* validate_image_url and urllib.parse.urlparse                            *)
(***************************************************************************)

\* urllib.parse.scheme_chars
SchemeChars == Letters \cup Digits \cup {"+", "-", "."}

\* The rest of a URL after its scheme: the netloc after "//" up to the next "/",
\* "?" or "#", and the path up to "?" or "#".
url_after_scheme(scheme, rest) ==
    The({The({[scheme |-> scheme,
               netloc |-> IF hasNetloc THEN SubSeq(rest, 3, delim - 1) ELSE <<>>,
               path   |-> SubSeq(tail, 1, FirstIn(tail, {"?", "#"}, 1) - 1)] :
                 tail \in {IF hasNetloc THEN SubSeq(rest, delim, Len(rest)) ELSE rest}}) :
           hasNetloc \in {startswith(rest, <<"/", "/">>)},
           delim \in {FirstIn(rest, {"/", "?", "#"}, 3)}})

\* The scheme of a URL, the text before the first ":" when it starts with a letter
\* and is made of scheme characters, and the rest.
url_split(u) ==
    The({IF /\ colon <= Len(u) /\ colon > 1
            /\ u[1] \in Letters
            /\ \A i \in 1..(colon - 1) : u[i] \in SchemeChars
         THEN url_after_scheme(lower(SubSeq(u, 1, colon - 1)), SubSeq(u, colon + 1, Len(u)))
         ELSE url_after_scheme(<<>>, u) :
           colon \in {FirstIn(u, {":"}, 1)}})

\* urlparse(url) for a str without ";", "[" or "]": leading whitespace and any
\* tab or newline are removed first.
urlparse(url) ==
    The({url_split(u) : u \in {SelectSeq(lstrip(url), LAMBDA c : c \notin {"\t", "\n"})}})

\* validate_image_url(url): urlparse of a value that is no str raises
\* (AttributeError: it has no decode), which the except clause turns into False.
validate_image_url(url) ==
    IF url.t # "str" THEN FALSE
    ELSE The({IF parsed.scheme = <<>> \/ parsed.netloc = <<>> THEN FALSE
              ELSE The({\E i \in 1..Len(ALLOWED_IMAGE_FORMATS) :
                            endswith(path, <<".">> \o ALLOWED_IMAGE_FORMATS[i]) :
                          path \in {lower(parsed.path)}}) :
                parsed \in {urlparse(url.s)}})

(***************************************************************************)
(* Pipeline.validate_dimensions                                            *)
(***************************************************************************)

\* The bounds and the grid of validate_dimensions.
MIN_DIMENSION == 256

MAX_DIMENSION == 1440

DIMENSION_STEP == 32

\* max(256, min(1440, v))
clamp_dimension(v) ==
    The({IF lo.ok THEN PyMax(PyInt(MIN_DIMENSION), lo.val) ELSE lo :
           lo \in {PyMin(PyInt(MAX_DIMENSION), v)}})

\* validate_dimensions without its rounding: the clamped value as it is.
round_dimension_skipped(v) == PyInt(NumVal(v))

\* round(v / 32) * 32
round_dimension(v) == PyInt(PyRound(NumVal(v), DIMENSION_STEP) * DIMENSION_STEP)

Dimensions(width, height) == [ok |-> TRUE, width |-> width, height |-> height, exc |-> "none"]

DimensionsFailed(exc) == [ok |-> FALSE, width |-> PyNone, height |-> PyNone, exc |-> exc]

\* validate_dimensions(width, height): (width, height), or the exception raised.
validate_dimensions(width, height) ==
    IF width = PyNone \/ height = PyNone THEN Dimensions(PyNone, PyNone)
    ELSE The({IF ~w.ok THEN DimensionsFailed(w.exc)
              ELSE IF ~h.ok THEN DimensionsFailed(h.exc)
              ELSE Dimensions(round_dimension(w.val), round_dimension(h.val)) :
                w \in {clamp_dimension(width)}, h \in {clamp_dimension(height)}})

(***************************************************************************)
(* Pipeline.pipe                                                           *)
(***************************************************************************)

\* The texts pipe returns.
PROMPT_REQUIRED == <<"E", "r", "r", "o", "r", ":", " ", "P", "r", "o", "m", "p", "t", " ", "i", "s", " ", "r", "e", "q", "u", "i", "r", "e", "d">>

IMAGE_PROMPT_INVALID ==
    <<"E", "r", "r", "o", "r", ":", " ", "i", "m", "a", "g", "e", "_", "p", "r", "o", "m", "p", "t", " ", "m", "u", "s", "t", " ", "b", "e", " ", "a", " ", "v", "a", "l", "i", "d", " ", "U", "R", "L", " ", "p", "o", "i", "n", "t", "i", "n", "g", " ", "t", "o", " ", "a", " ", "j", "p", "e", "g", ",", " ", "p", "n", "g", ",", " ", "g", "i", "f", ",", " ", "o", "r", " ", "w", "e", "b", "p", " ", "i", "m", "a", "g", "e">>

ERROR_GENERATING == <<"E", "r", "r", "o", "r", " ", "g", "e", "n", "e", "r", "a", "t", "i", "n", "g", " ", "i", "m", "a", "g", "e", ":", " ">>

NO_IMAGE == <<"N", "o", " ", "i", "m", "a", "g", "e", " ", "w", "a", "s", " ", "g", "e", "n", "e", "r", "a", "t", "e", "d", ".">>

\* f"![image]({output})\n"
image_markdown(output) == <<"!", "[", "i", "m", "a", "g", "e", "]", "(">> \o output \o <<")", "\n">>

\* The clamps of output_quality and safety_tolerance.
MIN_QUALITY == 0

MAX_QUALITY == 100

MIN_SAFETY == 1

MAX_SAFETY == 6

\* input_params is a dict, which keeps the order its keys were inserted in: a list
\* of [key, val].  input_params[key] = val of a new key appends.
has_key(input_params, key) == \E i \in 1..Len(input_params) : input_params[i].key = key

value_of(input_params, key) ==
    input_params[CHOOSE i \in 1..Len(input_params) : input_params[i].key = key].val

set_item(input_params, key, val) ==
    IF has_key(input_params, key)
    THEN [i \in 1..Len(input_params) |->
            IF input_params[i].key = key THEN [key |-> key, val |-> val]
            ELSE input_params[i]]
    ELSE Append(input_params, [key |-> key, val |-> val])

\* (Lines 287-293 only log the names of params that are not known: no state.)

\* The progress of the try block of pipe: "go" while it builds input_params,
\* "return" once it has returned text, "raise" once a statement has raised exc.
Going(input_params) == [kind |-> "go", input_params |-> input_params,
                        text |-> <<>>, exc |-> "none"]

Returning(text) == [kind |-> "return", input_params |-> <<>>, text |-> text, exc |-> "none"]

Raising(exc) == [kind |-> "raise", input_params |-> <<>>, text |-> <<>>, exc |-> exc]

get_aspect_ratio_from_input(input_text) ==
    fuzzy_match(input_text, AVAILABLE_ASPECT_RATIOS, S_1_1)

get_output_format_from_input(input_text) ==
    fuzzy_match(input_text, AVAILABLE_OUTPUT_FORMATS, S_webp)

\* min(hi, max(lo, v))
clamp(lo, hi, v) ==
    The({IF m.ok THEN PyMin(PyInt(hi), m.val) ELSE m : m \in {PyMax(PyInt(lo), v)}})

\* Lines 296-299: input_params with prompt and aspect_ratio.
pipe_input_params(params, prompt) ==
    The({IF ~aspect.ok THEN Raising(aspect.exc)
         ELSE Going(<<[key |-> "prompt", val |-> PyStr(strip(prompt.s))],
                      [key |-> "aspect_ratio", val |-> aspect.val]>>) :
           aspect \in {get_aspect_ratio_from_input(
                           DictGet(params, N_aspect_ratio, PyStr(S_1_1)))}})

\* Lines 283-299: the prompt check, then input_params.
\* params.get("prompt", "").strip() raises AttributeError on a value that is no str.
pipe_prompt(params) ==
    The({IF prompt.t # "str" THEN Raising("AttributeError")
         ELSE IF strip(prompt.s) = <<>> THEN Returning(PROMPT_REQUIRED)
         ELSE pipe_input_params(params, prompt) :
           prompt \in {DictGet(params, N_prompt, PyStr(<<>>))}})

\* Lines 302-306
pipe_image_prompt(params, st) ==
    IF N_image_prompt \notin DOMAIN params THEN st
    ELSE IF ~validate_image_url(params[N_image_prompt]) THEN Returning(IMAGE_PROMPT_INVALID)
    ELSE Going(set_item(st.input_params, "image_prompt", params[N_image_prompt]))

\* Lines 309-316
pipe_dimensions(params, st) ==
    IF value_of(st.input_params, "aspect_ratio") # PyStr(S_custom) THEN st
    ELSE The({IF ~d.ok THEN Raising(d.exc)
              ELSE IF Truthy(d.width) /\ Truthy(d.height)
                   THEN Going(set_item(set_item(st.input_params, "width", d.width),
                                       "height", d.height))
              ELSE st :
                d \in {validate_dimensions(DictGet(params, N_width, PyNone),
                                           DictGet(params, N_height, PyNone))}})

\* Lines 319-320
pipe_seed(params, st) ==
    IF N_seed \notin DOMAIN params THEN st
    ELSE The({IF ~v.ok THEN Raising(v.exc)
              ELSE Going(set_item(st.input_params, "seed", v.val)) :
                v \in {PyIntOf(params[N_seed])}})

\* Lines 321-322
pipe_prompt_upsampling(params, st) ==
    IF N_prompt_upsampling \notin DOMAIN params THEN st
    ELSE Going(set_item(st.input_params, "prompt_upsampling",
                        PyBool(Truthy(params[N_prompt_upsampling]))))

\* Lines 323-324
pipe_output_format(params, st) ==
    IF N_output_format \notin DOMAIN params THEN st
    ELSE The({IF ~v.ok THEN Raising(v.exc)
              ELSE Going(set_item(st.input_params, "output_format", v.val)) :
                v \in {get_output_format_from_input(params[N_output_format])}})

\* Lines 325-326
pipe_output_quality(params, st) ==
    IF N_output_quality \notin DOMAIN params THEN st
    ELSE The({IF ~v.ok THEN Raising(v.exc)
              ELSE Going(set_item(st.input_params, "output_quality", v.val)) :
                v \in {clamp(MIN_QUALITY, MAX_QUALITY, params[N_output_quality])}})

\* Lines 327-328
pipe_safety_tolerance(params, st) ==
    IF N_safety_tolerance \notin DOMAIN params THEN st
    ELSE The({IF ~v.ok THEN Raising(v.exc)
              ELSE Going(set_item(st.input_params, "safety_tolerance", v.val)) :
                v \in {clamp(MIN_SAFETY, MAX_SAFETY, params[N_safety_tolerance])}})

\* The statements of pipe that add to input_params, in the order of the code.
PIPE_STATEMENTS == <<"image_prompt", "dimensions", "seed", "prompt_upsampling",
                     "output_format", "output_quality", "safety_tolerance">>

\* One of them; a return or an exception before it skips it.
pipe_statement(name, params, st) ==
    IF st.kind # "go" THEN st
    ELSE CASE name = "image_prompt" -> pipe_image_prompt(params, st)
           [] name = "dimensions" -> pipe_dimensions(params, st)
           [] name = "seed" -> pipe_seed(params, st)
           [] name = "prompt_upsampling" -> pipe_prompt_upsampling(params, st)
           [] name = "output_format" -> pipe_output_format(params, st)
           [] name = "output_quality" -> pipe_output_quality(params, st)
           [] name = "safety_tolerance" -> pipe_safety_tolerance(params, st)

\* PIPE_STATEMENTS[i] and those after it.
RECURSIVE pipe_statements(_, _, _)
pipe_statements(i, params, st) ==
    IF i > Len(PIPE_STATEMENTS) THEN st
    ELSE The({pipe_statements(i + 1, params, next) :
                next \in {pipe_statement(PIPE_STATEMENTS[i], params, st)}})

\* The try block of pipe from the parsed params up to the call of client.run:
\* "go" with the payload of the call, or the return or the exception before it.
pipe_build(params) ==
    The({pipe_statements(1, params, st) : st \in {pipe_prompt(params)}})

\* pipe without its except clause: the exception reaches the caller.
except_clause_propagating(exc, message) == [raised |-> exc, text |-> <<>>]

\* The except clause of pipe: the exception is logged and a text is returned;
\* nothing is raised to the caller.  message is str(e).
except_clause(exc, message) ==
    [raised |-> "none", text |-> ERROR_GENERATING \o message]

(***************************************************************************)
(* The messages and the remote service                                     *)
(***************************************************************************)

\* The most flag units a message holds.
MaxFlags == 3

\* The text a message starts with: blank, a plain prompt, and the prompt of
\* the docstring example of parse_command_params, which holds "--" in quotes.
P_blank == <<" ", " ">>

P_cat == <<"A", " ", "c", "a", "t">>

P_sunset == <<"A", " ", "p", "a", "i", "n", "t", "i", "n", "g", " ", "o", "f", " ", "a", " ", "\"", "s", "u", "n", "s", "e", "t", " ", "-", "-", " ", "v", "e", "r", "y", " ", "b", "e", "a", "u", "t", "i", "f", "u", "l", "\"">>

PromptTexts == {P_blank, P_cat, P_sunset}

Valued(name, value) == [name |-> name, bare |-> FALSE, value |-> value]

Bare(name) == [name |-> name, bare |-> TRUE, value |-> <<>>]

\* The flag units a message is made of: "--name value", or "--name" alone.
FlagUnits ==
    { Valued(N_aspect_ratio, S_custom),
      Valued(N_aspect_ratio, <<"1", "6", "x", "9">>),
      Valued(N_aspect_ratio, <<"1", "6", "9">>),
      Valued(N_width, <<"3", "0", "0">>),
      Valued(N_width, <<"w", "i", "d", "e">>),
      Valued(N_height, <<"2", "7", "2">>),
      Valued(N_image_prompt, <<"h", "t", "t", "p", "s", ":", "/", "/", "x", ".", "c", "o", "/", "a", ".", "p", "n", "g">>),
      Valued(N_image_prompt, <<"n", "o", "t", "-", "a", "-", "u", "r", "l">>),
      Valued(N_seed, <<"7">>),
      Bare(N_prompt_upsampling),
      Valued(N_output_format, <<"P", "N", "G">>),
      Valued(N_output_quality, <<"t", "r", "u", "e">>),
      Valued(N_safety_tolerance, <<"0">>),
      Valued(N_prompt, <<"5">>) }

\* " --name value", " --name"
unit_text(u) ==
    <<" ", "-", "-">> \o u.name \o (IF u.bare THEN <<>> ELSE <<" ">> \o u.value)

\* What client.run returns: a URL, or an empty value.
ServiceOutputs == {PyStr(<<"h", "t", "t", "p", "s", ":", "/", "/", "r", ".", "c", "o", "/", "o", ".", "w", "e", "b", "p">>), PyStr(<<>>), PyNone}

\* str(e) of an exception.
ExceptionTexts == {<<"b", "o", "o", "m">>}

EmptyDict == <<>>

(***************************************************************************)
(* State                                                                   *)
(***************************************************************************)

VARIABLES
    user_message,   \* the message: the argument of pipe
    prompt_text,    \* the text the message was started with
    flags,          \* the flag units appended to it, in order
    pc,             \* "compose", "running" (inside client.run), "returned"
    params,         \* pipe's params, the result of parse_command_params
    input_params,   \* the payload passed to client.run
    run_calls,      \* the number of calls of client.run
    result,         \* the text pipe returned
    raised,         \* the exception pipe raised to its caller, "none" if none
    dim_args,       \* the arguments of a call of validate_dimensions
    dim_result      \* and its result

vars == <<user_message, prompt_text, flags, pc, params, input_params, run_calls,
          result, raised, dim_args, dim_result>>

Init ==
    /\ prompt_text \in PromptTexts
    /\ user_message = prompt_text
    /\ flags = <<>>
    /\ pc = "compose"
    /\ params = EmptyDict
    /\ input_params = <<>>
    /\ run_calls = 0
    /\ result = <<>>
    /\ raised = "none"
    /\ dim_args = <<PyNone, PyNone>>
    /\ dim_result = Dimensions(PyNone, PyNone)

\* The user appends one flag unit to the message.
AddFlag(u) ==
    /\ pc = "compose"
    /\ Len(flags) < MaxFlags
    /\ user_message' = user_message \o unit_text(u)
    /\ flags' = Append(flags, u)
    /\ UNCHANGED <<prompt_text, pc, params, input_params, run_calls, result, raised,
                   dim_args, dim_result>>

\* pipe(user_message, ...) up to its call of client.run, or to its return when it
\* does not get there.
Pipe ==
    /\ pc = "compose"
    /\ \E ps \in {parse_command_params(user_message)} :
       \E st \in {pipe_build(ps)} :
          /\ params' = ps
          /\ IF st.kind = "go"
             THEN /\ pc' = "running"
                  /\ input_params' = st.input_params
                  /\ run_calls' = run_calls + 1
                  /\ UNCHANGED <<result, raised>>
             ELSE IF st.kind = "return"
             THEN /\ pc' = "returned"
                  /\ result' = st.text
                  /\ UNCHANGED <<input_params, run_calls, raised>>
             ELSE \E message \in ExceptionTexts :
                  \E e \in {except_clause(st.exc, message)} :
                     /\ pc' = "returned"
                     /\ result' = e.text
                     /\ raised' = e.raised
                     /\ UNCHANGED <<input_params, run_calls>>
    /\ UNCHANGED <<user_message, prompt_text, flags, dim_args, dim_result>>

\* client.run returns output: lines 336-340.
RunReturns(output) ==
    /\ pc = "running"
    /\ pc' = "returned"
    /\ result' = IF Truthy(output) THEN image_markdown(output.s) ELSE NO_IMAGE
    /\ UNCHANGED <<user_message, prompt_text, flags, params, input_params, run_calls,
                   raised, dim_args, dim_result>>

\* client.run raises: lines 342-344.
RunRaises(message) ==
    /\ pc = "running"
    /\ \E e \in {except_clause("ReplicateError", message)} :
          /\ pc' = "returned"
          /\ result' = e.text
          /\ raised' = e.raised
    /\ UNCHANGED <<user_message, prompt_text, flags, params, input_params, run_calls,
                   dim_args, dim_result>>

Next ==
    \/ \E u \in FlagUnits : AddFlag(u)
    \/ Pipe
    \/ \E output \in ServiceOutputs : RunReturns(output)
    \/ \E message \in ExceptionTexts : RunRaises(message)

Spec == Init /\ [][Next]_vars

(***************************************************************************)
(* validate_dimensions on its own                                          *)
(***************************************************************************)

\* How far below 256 and above 1440 the integer arguments go.
DimMargin == 40

DimRange == {PyInt(n) : n \in (MIN_DIMENSION - DimMargin)..(MAX_DIMENSION + DimMargin)}

DimSamples == {PyNone, PyInt(0 - 5), PyInt(0), PyInt(100), PyInt(272), PyInt(300),
               PyInt(1439), PyInt(2000)}

InitDims ==
    /\ prompt_text = <<>>
    /\ user_message = <<>>
    /\ flags = <<>>
    /\ pc = "dims"
    /\ params = EmptyDict
    /\ input_params = <<>>
    /\ run_calls = 0
    /\ result = <<>>
    /\ raised = "none"
    /\ dim_args \in (DimRange \X DimSamples) \cup (DimSamples \X DimRange)
    /\ dim_result = Dimensions(PyNone, PyNone)

ValidateDimensions ==
    /\ pc = "dims"
    /\ pc' = "dims_done"
    /\ dim_result' = validate_dimensions(dim_args[1], dim_args[2])
    /\ UNCHANGED <<user_message, prompt_text, flags, params, input_params, run_calls,
                   result, raised, dim_args>>

NextDims == ValidateDimensions

SpecDims == InitDims /\ [][NextDims]_vars

(***************************************************************************)
(* Properties                                                              *)
(***************************************************************************)

\* pipe has been called: params holds the result of parse_command_params.
Parsed_ == pc \in {"running", "returned"}

\* client.run has been called with input_params.
Called == run_calls > 0

S_Error == <<"E", "r", "r", "o", "r">>

S_ErrorColon == <<"E", "r", "r", "o", "r", ":">>

Abs(n) == IF n < 0 THEN 0 - n ELSE n

\* C1: whatever the message and whatever the remote service does (returns a
\* value, returns an empty value, raises), pipe raises nothing to its caller and
\* the text it returns is the markdown image reference "![image](...)\n", "No
\* image was generated." or a text that begins with "Error".
C1_PipeNeverRaises ==
    /\ raised = "none"
    /\ pc = "returned" =>
          \/ result = NO_IMAGE
          \/ startswith(result, S_Error)
          \/ /\ startswith(result, <<"!", "[", "i", "m", "a", "g", "e", "]", "(">>)
             /\ endswith(result, <<")", "\n">>)
             /\ Len(result) > Len(<<"!", "[", "i", "m", "a", "g", "e", "]", "(">>) + Len(<<")", "\n">>)

\* The remote service raised and pipe returned the error text.
C1_Witness ==
    /\ pc = "returned"
    /\ run_calls = 1
    /\ raised = "none"
    /\ startswith(result, ERROR_GENERATING)

\* C2: a request that fails validation never reaches the remote service: when the
\* tokenized prompt is empty after trimming the result is exactly "Error: Prompt
\* is required", when image_prompt is present and fails validate_image_url the
\* result starts with "Error:", and client.run is not called in either case.
C2_InvalidRequestNotSent ==
    Parsed_ =>
       /\ (params[N_prompt].t = "str" /\ strip(params[N_prompt].s) = <<>>) =>
              (pc = "returned" /\ result = PROMPT_REQUIRED /\ run_calls = 0)
       /\ (N_image_prompt \in DOMAIN params /\ ~validate_image_url(params[N_image_prompt])) =>
              (pc = "returned" /\ startswith(result, S_ErrorColon) /\ run_calls = 0)

\* C3: a flag unit with a name and no value is stored under its name as True.
C3_BareFlagIsTrue ==
    Parsed_ =>
       \A i \in 1..Len(flags) :
          (flags[i].bare /\ \A j \in (i + 1)..Len(flags) : flags[j].name # flags[i].name) =>
              (flags[i].name \in DOMAIN params /\ params[flags[i].name] = PyBool(TRUE))

\* C4: for a message P + " --a x --b y" (a and b two different names, neither
\* of them prompt) the parsed prompt is trim(P), a is x and b is y after type
\* coercion, also when P holds "--" inside quotes.
C4_PromptAndTwoFlags ==
    (/\ Parsed_
     /\ Len(flags) = 2
     /\ ~flags[1].bare /\ ~flags[2].bare
     /\ flags[1].name # flags[2].name
     /\ N_prompt \notin {flags[1].name, flags[2].name}) =>
        /\ params[N_prompt] = PyStr(strip(prompt_text))
        /\ \A i \in 1..2 :
              /\ flags[i].name \in DOMAIN params
              /\ params[flags[i].name] = convert_value(PyStr(flags[i].value)).val

\* The order of the keys of the remote schema, the x-order of the comments of pipe.
SchemaOrder == <<"prompt", "image_prompt", "aspect_ratio", "width", "height",
                 "safety_tolerance", "seed", "prompt_upsampling", "output_format",
                 "output_quality">>

SchemaPosition(key) == CHOOSE i \in 1..Len(SchemaOrder) : SchemaOrder[i] = key

\* C5: the keys of every payload passed to the remote service were inserted in
\* the schema order, whatever the order of the flags in the message.
C5_KeysInSchemaOrder ==
    Called =>
       \A i, j \in 1..Len(input_params) :
          i < j => SchemaPosition(input_params[i].key) < SchemaPosition(input_params[j].key)

\* C6: every payload passed to the remote service holds a prompt that is a
\* non-empty trimmed string and an aspect_ratio among the ten values; when
\* present, output_quality is an integer in 0..100 and safety_tolerance an
\* integer in 1..6.
C6_PayloadValues ==
    Called =>
       /\ has_key(input_params, "prompt")
       /\ value_of(input_params, "prompt").t = "str"
       /\ value_of(input_params, "prompt").s # <<>>
       /\ strip(value_of(input_params, "prompt").s) = value_of(input_params, "prompt").s
       /\ has_key(input_params, "aspect_ratio")
       /\ value_of(input_params, "aspect_ratio").t = "str"
       /\ value_of(input_params, "aspect_ratio").s \in Elems(AVAILABLE_ASPECT_RATIOS)
       /\ has_key(input_params, "output_quality") =>
             /\ value_of(input_params, "output_quality").t = "int"
             /\ value_of(input_params, "output_quality").n \in MIN_QUALITY..MAX_QUALITY
       /\ has_key(input_params, "safety_tolerance") =>
             /\ value_of(input_params, "safety_tolerance").t = "int"
             /\ value_of(input_params, "safety_tolerance").n \in MIN_SAFETY..MAX_SAFETY

\* A dimension of a payload: an integer multiple of 32 in 256..1440.
OnGrid(v) ==
    /\ v.t = "int"
    /\ v.n % DIMENSION_STEP = 0
    /\ v.n >= MIN_DIMENSION /\ v.n <= MAX_DIMENSION

\* C7: in every payload passed to the remote service width and height are both
\* present or both absent, present only when aspect_ratio is "custom", and each
\* a multiple of 32 in 256..1440.
C7_PayloadDimensions ==
    Called =>
       /\ has_key(input_params, "width") <=> has_key(input_params, "height")
       /\ has_key(input_params, "width") =>
             /\ value_of(input_params, "aspect_ratio") = PyStr(S_custom)
             /\ OnGrid(value_of(input_params, "width"))
             /\ OnGrid(value_of(input_params, "height"))

\* A payload with the dimensions of "--width 300 --height 272".
C7_Witness ==
    /\ Called
    /\ has_key(input_params, "width") /\ has_key(input_params, "height")
    /\ value_of(input_params, "width") = PyInt(288)
    /\ value_of(input_params, "height") = PyInt(256)

\* n clamped to [256, 1440].
Clamped(n) ==
    IF n < MIN_DIMENSION THEN MIN_DIMENSION
    ELSE IF n > MAX_DIMENSION THEN MAX_DIMENSION ELSE n

\* r is a multiple of 32 nearest to c.
NearestMultiple(c, r) == r % DIMENSION_STEP = 0 /\ Abs(r - c) * 2 <= DIMENSION_STEP

Midway(c, r) == Abs(r - c) * 2 = DIMENSION_STEP

\* validate_dimensions has returned for two integers.
DimsOfIntegers ==
    pc = "dims_done" /\ dim_args[1].t = "int" /\ dim_args[2].t = "int"

\* C8, as amended: for all integers width and height, validate_dimensions clamps
\* each to [256, 1440] and rounds each independently to the nearest multiple of
\* 32; a value exactly midway between two multiples (remainder 16) goes to the
\* one that is an even multiple of 32 (round half to even): 272 to 256, 304 to 320.
C8_ClampRoundHalfEven ==
    DimsOfIntegers =>
       /\ dim_result.ok
       /\ dim_result.width.t = "int" /\ dim_result.height.t = "int"
       /\ \A d \in {<<dim_args[1].n, dim_result.width.n>>,
                    <<dim_args[2].n, dim_result.height.n>>} :
             /\ NearestMultiple(Clamped(d[1]), d[2])
             /\ Midway(Clamped(d[1]), d[2]) => (d[2] \div DIMENSION_STEP) % 2 = 0

\* C8, as stated: the same, with a value exactly midway rounded up to the larger
\* multiple (half away from zero).
C8_ClampRoundHalfUp ==
    DimsOfIntegers =>
       /\ dim_result.ok
       /\ dim_result.width.t = "int" /\ dim_result.height.t = "int"
       /\ \A d \in {<<dim_args[1].n, dim_result.width.n>>,
                    <<dim_args[2].n, dim_result.height.n>>} :
             /\ NearestMultiple(Clamped(d[1]), d[2])
             /\ Midway(Clamped(d[1]), d[2]) => d[2] > Clamped(d[1])

\* validate_dimensions(272, 2000) = (256, 1440): a midway width and a clamped height.
C8_Witness ==
    /\ pc = "dims_done"
    /\ dim_args = <<PyInt(272), PyInt(2000)>>
    /\ dim_result = Dimensions(PyInt(256), PyInt(1440))

\* C9: for every value the tokenizer stores under aspect_ratio or output_format
\* fuzzy_match raises nothing and returns a candidate or the default.
C9_FuzzyMatchTotal ==
    Parsed_ =>
       \A e \in {<<N_aspect_ratio, AVAILABLE_ASPECT_RATIOS, S_1_1>>,
                 <<N_output_format, AVAILABLE_OUTPUT_FORMATS, S_webp>>} :
          e[1] \in DOMAIN params =>
             /\ fuzzy_match(params[e[1]], e[2], e[3]).ok
             /\ fuzzy_match(params[e[1]], e[2], e[3]).val.t = "str"
             /\ fuzzy_match(params[e[1]], e[2], e[3]).val.s \in Elems(e[2]) \cup {e[3]}

\* C10: the mapping parse_command_params returns holds the key prompt, and its
\* value is a string.
C10_PromptIsString ==
    Parsed_ => (N_prompt \in DOMAIN params /\ params[N_prompt].t = "str")

====
